---- MODULE Spec2Model ----
(***************************************************************************)
(* A model of the Gemini function-calling orchestrator, src/src/chat.ts.   *)
(*                                                                         *)
(* One run of handleChat is a sequential process: it builds the transcript *)
(* (contents) from the caller's history and message, then loops at most    *)
(* MAX_TOOL_CALLS times over "call the completion service, and on a        *)
(* function call run the tool and append both turns".  The two awaits of   *)
(* the loop (fetch + json, executeTool) are the suspension points; between *)
(* them the code runs without interruption, so each action below is one    *)
(* such stretch of code.                                                   *)
(*                                                                         *)
(* JavaScript values are modelled as follows.  A string is a sequence of   *)
(* tokens, so that "" is << >>, a template literal is a concatenation and  *)
(* truthiness of a string is "not << >>".  A JSON object is a record whose *)
(* DOMAIN holds exactly the keys that are present: p.text is undefined     *)
(* when "text" \notin DOMAIN p.  The source's Korean message literals are  *)
(* written as ASCII glosses.                                               *)
(*                                                                         *)
(* Four specifications share the actions of the run.  Spec is one run of   *)
(* handleChat called directly and FairSpec the same run with the fairness  *)
(* of a program that goes on after each await.  TwoRuns interleaves two    *)
(* invocations at their awaits.  Worker is the fetch handler of            *)
(* src/src/index.ts on the route POST /api/chat, which validates the       *)
(* request, calls handleChat and answers.  A fifth specification, Widget,  *)
(* is the chat page of src/src/ui.ts, the client of that route.            *)
(***************************************************************************)
EXTENDS Integers, Sequences, FiniteSets

(***************************************************************************)
(* Bounds of the model.                                                    *)
(***************************************************************************)
\* Over one run, the completion service returns at most this many content
\* segments beyond the first one of each tool-call response; a single
\* response holds at most 1 + MaxExtraParts segments.
MaxExtraParts == 1

(***************************************************************************)
(* Program constants.                                                      *)
(***************************************************************************)
MAX_TOOL_CALLS == 5

\* The names declared to the model, in declaration order.
functionDeclarations ==
    << "weather", "exchange_rate", "translate", "summarize",
       "web_search", "fetch_url", "calculate", "datetime" >>

\* A switch that lacks the case "datetime".
SwitchCasesWithoutDatetime ==
    { "weather", "exchange_rate", "translate", "summarize",
      "web_search", "fetch_url", "calculate" }

\* The case labels of the switch in executeTool.
SwitchCases ==
    { "weather", "exchange_rate", "translate", "summarize",
      "web_search", "fetch_url", "calculate", "datetime" }

\* The executor each case of the switch calls; "none" for the default case.
ExecutorOf(nm) ==
    CASE nm = "weather" -> "executeWeather"
      [] nm = "exchange_rate" -> "executeExchangeRate"
      [] nm = "translate" -> "executeTranslate"
      [] nm = "summarize" -> "executeSummarize"
      [] nm = "web_search" -> "executeWebSearch"
      [] nm = "fetch_url" -> "executeFetchUrl"
      [] nm = "calculate" -> "executeCalculate"
      [] nm = "datetime" -> "executeDatetime"
      [] OTHER -> "none"

systemPrompt == << "SYSTEM PROMPT" >>

\* `${systemPrompt}\n\n<user question label>: ${message}`
FirstUserText(msg) == systemPrompt \o << "\n\nuser question: " >> \o msg

BudgetReply == << "tool call limit reached, please retry the question" >>
NoResponseReply == << "no response received from Gemini" >>
UnprocessableReply == << "could not process the response" >>
ApiErrorPrefix == << "Gemini API error: " >>

(***************************************************************************)
(* JavaScript helpers.                                                     *)
(***************************************************************************)
\* Truthiness of an optional string property: present and not "".
Truthy(obj, key) == key \in DOMAIN obj /\ obj[key] # << >>

\* Truthiness of an optional object property: present (objects are truthy).
Has(obj, key) == key \in DOMAIN obj

\* Array.prototype.find over the indices that satisfy the callback: the
\* first of them, 0 (undefined) when there is none.
Find(matching) ==
    IF matching = {} THEN 0
    ELSE CHOOSE k \in matching : \A j \in matching : k <= j

\* (p) => p.functionCall
IsFunctionCallPart(p) == Has(p, "functionCall")

\* A test for the presence of p.text instead of its truthiness.
IsTextPartPresent(p) == Has(p, "text")

\* (p) => p.text
IsTextPart(p) == Truthy(p, "text")

\* A find that takes the last function call instead of the first.
LastFunctionCallIndex(ps) ==
    IF \E k \in 1..Len(ps) : Has(ps[k], "functionCall")
    THEN CHOOSE k \in 1..Len(ps) :
             /\ Has(ps[k], "functionCall")
             /\ \A j \in (k + 1)..Len(ps) : ~Has(ps[j], "functionCall")
    ELSE 0

\* parts.find((p) => p.functionCall), as an index into parts (0: undefined)
FunctionCallIndex(ps) ==
    Find({ k \in 1..Len(ps) : IsFunctionCallPart(ps[k]) })

\* parts.find((p) => p.text), as an index into parts (0: undefined)
TextIndex(ps) == Find({ k \in 1..Len(ps) : IsTextPart(ps[k]) })

(***************************************************************************)
(* The environment: what the caller passes in, what the completion service *)
(* answers and how a tool executor ends.                                   *)
(***************************************************************************)
Histories ==
    { << >>,
      << [role |-> "user", text |-> << "earlier question" >>],
         [role |-> "assistant", text |-> << "earlier answer" >>] >> }

Messages == { << "What is the weather in Seoul?" >> }

TextPart == [text |-> << "It is 5C and clear in Seoul." >>]
OtherTextPart == [text |-> << "Anything else?" >>]
EmptyTextPart == [text |-> << >>]
OpaquePart == [thoughtSignature |-> "sigA"]
WeatherCall ==
    [functionCall |-> [name |-> "weather", args |-> "city=Seoul"],
     thoughtSignature |-> "sigB"]
UnknownCall == [functionCall |-> [name |-> "unknown_tool", args |-> "none"]]

\* Segments of a response that holds a function call, and of one that holds
\* none.
CallSegments == { TextPart, WeatherCall, UnknownCall }
PlainSegments == { TextPart, OtherTextPart, EmptyTextPart, OpaquePart }

SeqsUpTo(S, n) == UNION { [1..k -> S] : k \in 0..n }

RECURSIVE ExtraParts(_)
\* The segments beyond the first in the model turns of a transcript.
ExtraParts(turns) ==
    IF turns = << >> THEN 0
    ELSE LET t == Head(turns)
         IN  (IF t.role = "model" /\ Len(t.parts) > 1
              THEN Len(t.parts) - 1 ELSE 0) + ExtraParts(Tail(turns))

\* The segment lists the service may return when n extra segments are left.
PartLists(n) ==
    { ps \in SeqsUpTo(CallSegments, 1 + n) : FunctionCallIndex(ps) # 0 }
    \cup SeqsUpTo(PlainSegments, 1 + n)

\* The bodies of a success response: no candidate, a candidate without
\* content, or a candidate with a list of segments.
OkData(n) ==
    { [candidates |-> << >>],
      [candidates |-> << [finishReason |-> "SAFETY"] >>] }
    \cup { [candidates |-> << [content |-> [role |-> "model", parts |-> ps]] >>] :
              ps \in PartLists(n) }

\* The bodies of a non-success response: with and without error.message.
ErrorData ==
    { [error |-> [code |-> 400, message |-> << "API key not valid" >>]],
      [code |-> 502] }

\* A resolved fetch: the status flag, whether the body parses as JSON, and
\* the parsed body.
Responses(n) ==
    { [ok |-> TRUE, json |-> TRUE, data |-> d] : d \in OkData(n) }
    \cup { [ok |-> FALSE, json |-> TRUE, data |-> d] : d \in ErrorData }
    \cup { [ok |-> b, json |-> FALSE] : b \in BOOLEAN }

\* JSON.stringify of the error bodies above.
JSONstringify(d) ==
    IF Has(d, "error")
    THEN << "{\"error\":{\"code\":400,\"message\":\"" >> \o d.error.message
             \o << "\"}}" >>
    ELSE << "{\"code\":502}" >>

\* How an executor of tools.ts ends: it returns a string, or it throws an
\* Error (a failed fetch, a body that is not JSON, a bad argument).
ExecutorOutcomes ==
    { [threw |-> FALSE, value |-> << "Seoul: 5C, clear" >>],
      [threw |-> TRUE, message |-> << "weather service unreachable" >>] }

\* No executor runs for a name the switch does not list.
NotDispatched == [threw |-> FALSE, dispatched |-> FALSE]

\* The ways the call executeTool(nm, ...) can go inside.
OutcomesOf(nm) ==
    IF nm \in SwitchCases THEN ExecutorOutcomes ELSE { NotDispatched }

(***************************************************************************)
(* executeTool and the turns handleChat appends.                           *)
(***************************************************************************)
\* How an awaited async call settles: it returns a value or it rejects.
Returned(v) == [raised |-> FALSE, value |-> v]
Raised(e) == [raised |-> TRUE, error |-> e]

\* An Error object.
JsError(kind, msg) == [name |-> kind, message |-> msg]

\* A default branch that throws.
UnknownToolThrows(nm) == Raised(JsError("Error", << "unknown tool: ", nm >>))

\* default: return `unknown tool: ${name}`
UnknownTool(nm) == Returned(<< "unknown tool: ", nm >>)

\* catch (err) { return `tool execution error (${name}): ${err.message}` }
CatchExecutor(nm, out) ==
    Returned(<< "tool execution error (", nm, "): " >> \o out.message)

\* An executeTool without its try block.
executeToolNoCatch(nm, ar, out) ==
    IF nm \in SwitchCases
    THEN IF out.threw
         THEN Raised(JsError("Error", out.message))
         ELSE Returned(out.value)
    ELSE UnknownTool(nm)

\* executeTool(name, args, apiKey) when the executor it dispatches to ends
\* with out; an undeclared name reaches no executor.
executeTool(nm, ar, out) ==
    IF nm \in SwitchCases
    THEN IF out.threw THEN CatchExecutor(nm, out) ELSE Returned(out.value)
    ELSE UnknownTool(nm)

\* A model turn rebuilt from the parsed function call.
RebuiltTurn(ps) ==
    [role |-> "model",
     parts |-> << [functionCall |->
                     (CHOOSE p \in { ps[k] : k \in 1..Len(ps) } :
                          Has(p, "functionCall")).functionCall] >>]

\* { role: "model", parts: parts }
ModelTurn(ps) == [role |-> "model", parts |-> ps]

\* A tool-result turn that does not carry the name of the tool.
UnnamedResultTurn(nm, toolResult) ==
    [role |-> "user",
     parts |-> << [functionResponse |->
                     [name |-> "tool", response |-> [result |-> toolResult]]] >>]

\* { role: "user", parts: [{ functionResponse: { name, response: { result } } }] }
ToolResultTurn(nm, toolResult) ==
    [role |-> "user",
     parts |-> << [functionResponse |->
                     [name |-> nm, response |-> [result |-> toolResult]]] >>]

\* One history entry as a Gemini turn.
HistoryTurn(msg) ==
    [role |-> IF msg.role = "assistant" THEN "model" ELSE "user",
     parts |-> << [text |-> msg.text] >>]

\* A transcript whose new user turn always carries the system prompt.
BuildContentsAlwaysPrompted(hist, msg) ==
    Append([k \in 1..Len(hist) |->
               [role |-> IF hist[k].role = "assistant" THEN "model" ELSE "user",
                parts |-> << [text |-> hist[k].text] >>]],
           [role |-> "user",
            parts |-> << [text |-> systemPrompt \o << "\n\nuser question: " >> \o msg] >>])

\* The transcript before the first completion call.
BuildContents(hist, msg) ==
    LET prior == [k \in 1..Len(hist) |-> HistoryTurn(hist[k])]
    IN  IF Len(prior) = 0
        THEN << [role |-> "user", parts |-> << [text |-> FirstUserText(msg)] >>] >>
        ELSE Append(prior, [role |-> "user", parts |-> << [text |-> msg] >>])

\* A loop that stops one round early.
LoopGuardOneShort(k) == k < MAX_TOOL_CALLS - 1

\* A loop that runs once too often.
LoopGuardInclusive(k) == k <= MAX_TOOL_CALLS

\* for (let i = 0; i < MAX_TOOL_CALLS; i++)
LoopGuard(k) == k < MAX_TOOL_CALLS

\* geminiData.error?.message || JSON.stringify(geminiData)
ErrorMessage(d) ==
    IF Has(d, "error") /\ Truthy(d.error, "message")
    THEN d.error.message
    ELSE JSONstringify(d)

\* geminiData.candidates?.[0]
Candidate(d) ==
    IF Has(d, "candidates") /\ Len(d.candidates) > 0
    THEN << d.candidates[1] >>
    ELSE << >>

\* candidate?.content?.parts?.length is truthy
HasParts(d) ==
    /\ Candidate(d) # << >>
    /\ Has(Candidate(d)[1], "content")
    /\ Has(Candidate(d)[1].content, "parts")
    /\ Len(Candidate(d)[1].content.parts) > 0

PartsOf(d) == Candidate(d)[1].content.parts

(***************************************************************************)
(* The state of one handleChat run.                                        *)
(***************************************************************************)
VARIABLES
    pc,         \* "loop", "fetch" (completion call in flight), "tool"
                \* (executeTool in flight), "done" (returned), "threw"
    i,          \* the loop counter
    history,    \* the caller's history
    message,    \* the caller's message
    contents,   \* the transcript
    toolsUsed,  \* the names of the tools called
    parts,      \* the segment list of the response being handled
    name,       \* functionCallPart.functionCall.name
    args,       \* functionCallPart.functionCall.args
    result,     \* the value handleChat returned: {} until it returns
    thrown,     \* the exception that left handleChat: {} unless one did
    sent,       \* the transcripts sent to the completion service, in order
    received,   \* the responses the completion service gave, in order
    invoked,    \* the executeTool calls made, in order
    outcomes,   \* how the executor of each settled executeTool call ended
    other,      \* the frame of a second, suspended handleChat run: << >>
                \* when there is none
    declared,   \* the module-level array functionDeclarations
    request,    \* the HTTP request the fetch handler serves: << >> when
                \* handleChat is called directly
    response,   \* the HTTP response of the fetch handler: << >> until sent
    uiHistory,  \* the chat widget's history array (ui.ts: let history)
    isLoading,  \* the chat widget's isLoading flag
    sendBtnDisabled, \* sendBtn.disabled
    inputValue, \* inputEl.value
    messagesEl, \* the bubbles appended to the message list, in order
    inFlight,   \* the number of /api/chat requests of the widget awaiting
                \* their response
    posted,     \* the bodies of the requests the widget sent, in order
    lastTrigger \* what the last call of sendMessage did: "none" before the
                \* first, "sent" or "ignored"

\* The state of the chat widget.
widget == << uiHistory, isLoading, sendBtnDisabled, inputValue, messagesEl,
             inFlight, posted, lastTrigger >>

vars == << pc, i, history, message, contents, toolsUsed, parts, name, args,
           result, thrown, sent, received, invoked, outcomes,
           other, declared, request, response, widget >>

\* The state outside the running handleChat call, none of which its code
\* refers to: the locals of another invocation, the module-level array (read
\* only to build the request body) and the handler's request and response.
outer == << other, declared, request, response, widget >>

\* The chat page as loaded: nothing typed, nothing sent.
WidgetLoaded ==
    /\ uiHistory = << >>
    /\ isLoading = FALSE
    /\ sendBtnDisabled = FALSE
    /\ inputValue = << >>
    /\ messagesEl = << >>
    /\ inFlight = 0
    /\ posted = << >>
    /\ lastTrigger = "none"

\* handleChat(message, history, apiKey) has been called and has built the
\* transcript: the state at the head of the loop.
Start ==
    /\ pc = "loop"
    /\ i = 0
    /\ history \in Histories
    /\ message \in Messages
    /\ contents = BuildContents(history, message)
    /\ toolsUsed = << >>
    /\ parts = << >>
    /\ name = ""
    /\ args = ""
    /\ result = {}
    /\ thrown = {}
    /\ sent = << >>
    /\ received = << >>
    /\ invoked = << >>
    /\ outcomes = << >>

\* One run of handleChat, called directly.
Init ==
    /\ Start
    /\ other = << >>
    /\ declared = functionDeclarations
    /\ request = << >>
    /\ response = << >>
    /\ WidgetLoaded

\* A return that drops the names collected so far.
ReturnWithoutTools(reply) ==
    /\ result' = { [reply |-> reply, tools_used |-> << >>] }
    /\ pc' = "done"

\* return { reply, tools_used: toolsUsed }
Return(reply) ==
    /\ result' = { [reply |-> reply, tools_used |-> toolsUsed] }
    /\ pc' = "done"

\* An exception leaves handleChat, which has no try block.
Throw(err) ==
    /\ thrown' = { err }
    /\ pc' = "threw"

\* A loop head that does not wait for the tool call to settle.
CallGeminiWithoutAwait ==
    /\ pc \in { "loop", "tool" }
    /\ i < MAX_TOOL_CALLS
    /\ sent' = Append(sent, contents)
    /\ pc' = "fetch"
    /\ UNCHANGED << outer, i, history, message, contents, toolsUsed, parts, name,
                    args, result, thrown, received, invoked, outcomes >>

\* The loop head: the next completion call is issued.
CallGemini ==
    /\ pc = "loop"
    /\ LoopGuard(i)
    /\ sent' = Append(sent, contents)
    /\ pc' = "fetch"
    /\ UNCHANGED << outer, i, history, message, contents, toolsUsed, parts, name,
                    args, result, thrown, received, invoked, outcomes >>

\* The loop ends without a final answer.
BudgetExhausted ==
    /\ pc = "loop"
    /\ ~LoopGuard(i)
    /\ Return(BudgetReply)
    /\ UNCHANGED << outer, i, history, message, contents, toolsUsed, parts, name,
                    args, thrown, sent, received, invoked, outcomes >>

\* await fetch(...) rejects: a transport failure.
FetchRejects ==
    /\ pc = "fetch"
    /\ Throw(JsError("TypeError", << "fetch failed" >>))
    /\ UNCHANGED << outer, i, history, message, contents, toolsUsed, parts, name,
                    args, result, sent, received, invoked, outcomes >>

\* The responses the service may give in the current state.
NextResponses == Responses(MaxExtraParts - ExtraParts(contents))

\* await geminiRes.json() rejects: the body is not JSON.
JsonRejects(r) ==
    /\ pc = "fetch"
    /\ ~r.json
    /\ received' = Append(received, r)
    /\ Throw(JsError("SyntaxError", << "Unexpected token < in JSON" >>))
    /\ UNCHANGED << outer, i, history, message, contents, toolsUsed, parts, name,
                    args, result, sent, invoked, outcomes >>

\* if (!geminiRes.ok) return { reply: `Gemini API error: ...`, ... }
ServiceError(r) ==
    /\ pc = "fetch"
    /\ r.json
    /\ ~r.ok
    /\ received' = Append(received, r)
    /\ Return(ApiErrorPrefix \o ErrorMessage(r.data))
    /\ UNCHANGED << outer, i, history, message, contents, toolsUsed, parts, name,
                    args, thrown, sent, invoked, outcomes >>

\* A response without segments that is skipped: the loop goes on.
NoCandidateRetries(r) ==
    /\ pc = "fetch"
    /\ r.json
    /\ r.ok
    /\ ~HasParts(r.data)
    /\ received' = Append(received, r)
    /\ i' = i + 1
    /\ pc' = "loop"
    /\ UNCHANGED << outer, history, message, contents, toolsUsed, parts, name,
                    args, result, thrown, sent, invoked, outcomes >>

\* if (!candidate?.content?.parts?.length) return { reply: ..., ... }
NoCandidate(r) ==
    /\ pc = "fetch"
    /\ r.json
    /\ r.ok
    /\ ~HasParts(r.data)
    /\ received' = Append(received, r)
    /\ Return(NoResponseReply)
    /\ UNCHANGED << outer, i, history, message, contents, toolsUsed, parts, name,
                    args, thrown, sent, invoked, outcomes >>

\* A handling of the function call that pushes the model turn before it
\* calls the tool.
ToolCallRequestedPushingTurn(r) ==
    /\ pc = "fetch"
    /\ r.json
    /\ r.ok
    /\ HasParts(r.data)
    /\ FunctionCallIndex(PartsOf(r.data)) # 0
    /\ LET fc == PartsOf(r.data)[FunctionCallIndex(PartsOf(r.data))].functionCall
       IN  /\ parts' = PartsOf(r.data)
           /\ name' = fc.name
           /\ args' = fc.args
           /\ toolsUsed' = Append(toolsUsed, fc.name)
           /\ invoked' = Append(invoked, [name |-> fc.name, args |-> fc.args])
    /\ contents' = Append(contents, [role |-> "model", parts |-> PartsOf(r.data)])
    /\ received' = Append(received, r)
    /\ pc' = "tool"
    /\ UNCHANGED << outer, i, history, message, result, thrown, sent, outcomes >>

\* if (functionCallPart) { toolsUsed.push(name); await executeTool(...)
ToolCallRequested(r) ==
    /\ pc = "fetch"
    /\ r.json
    /\ r.ok
    /\ HasParts(r.data)
    /\ FunctionCallIndex(PartsOf(r.data)) # 0
    /\ LET fc == PartsOf(r.data)[FunctionCallIndex(PartsOf(r.data))].functionCall
       IN  /\ parts' = PartsOf(r.data)
           /\ name' = fc.name
           /\ args' = fc.args
           /\ toolsUsed' = Append(toolsUsed, fc.name)
           /\ invoked' = Append(invoked, [name |-> fc.name, args |-> fc.args])
    /\ received' = Append(received, r)
    /\ pc' = "tool"
    /\ UNCHANGED << outer, i, history, message, contents, result, thrown, sent,
                    outcomes >>

\* if (textPart) return { reply: textPart.text, tools_used: toolsUsed }
FinalAnswer(r) ==
    /\ pc = "fetch"
    /\ r.json
    /\ r.ok
    /\ HasParts(r.data)
    /\ FunctionCallIndex(PartsOf(r.data)) = 0
    /\ TextIndex(PartsOf(r.data)) # 0
    /\ parts' = PartsOf(r.data)
    /\ received' = Append(received, r)
    /\ Return(PartsOf(r.data)[TextIndex(PartsOf(r.data))].text)
    /\ UNCHANGED << outer, i, history, message, contents, toolsUsed, name, args,
                    thrown, sent, invoked, outcomes >>

\* return { reply: "could not process the response", tools_used: toolsUsed }
Unprocessable(r) ==
    /\ pc = "fetch"
    /\ r.json
    /\ r.ok
    /\ HasParts(r.data)
    /\ FunctionCallIndex(PartsOf(r.data)) = 0
    /\ TextIndex(PartsOf(r.data)) = 0
    /\ parts' = PartsOf(r.data)
    /\ received' = Append(received, r)
    /\ Return(UnprocessableReply)
    /\ UNCHANGED << outer, i, history, message, contents, toolsUsed, name, args,
                    thrown, sent, invoked, outcomes >>

\* A settling that puts the new turns at the head of the transcript.
ToolSettlesUnshifting(out) ==
    /\ pc = "tool"
    /\ outcomes' = Append(outcomes, out)
    /\ contents' =
         << [role |-> "model", parts |-> parts],
            [role |-> "user",
             parts |-> << [functionResponse |->
                             [name |-> name,
                              response |-> [result |-> << "result" >>]]] >>] >>
           \o contents
    /\ i' = i + 1
    /\ pc' = "loop"
    /\ UNCHANGED << outer, history, message, toolsUsed, parts, name, args, result,
                    thrown, sent, received, invoked >>

\* await executeTool(name, args, apiKey) settles; both turns are pushed and
\* the loop continues.
ToolSettles(out) ==
    /\ pc = "tool"
    /\ outcomes' = Append(outcomes, out)
    /\ LET toolResult == executeTool(name, args, out)
       IN  IF toolResult.raised
           THEN /\ Throw(toolResult.error)
                /\ UNCHANGED << i, contents >>
           ELSE /\ contents' = contents \o
                       << ModelTurn(parts), ToolResultTurn(name, toolResult.value) >>
                /\ i' = i + 1
                /\ pc' = "loop"
                /\ UNCHANGED thrown
    /\ UNCHANGED << outer, history, message, toolsUsed, parts, name, args, result,
                    sent, received, invoked >>

\* await fetch(...) resolves with one of the responses the service may give;
\* await executeTool(...) settles with one of the ways the call can go.
Next ==
    \/ CallGemini
    \/ BudgetExhausted
    \/ FetchRejects
    \/ pc = "fetch" /\ \E r \in NextResponses : JsonRejects(r)
    \/ pc = "fetch" /\ \E r \in NextResponses : ServiceError(r)
    \/ pc = "fetch" /\ \E r \in NextResponses : NoCandidate(r)
    \/ pc = "fetch" /\ \E r \in NextResponses : ToolCallRequested(r)
    \/ pc = "fetch" /\ \E r \in NextResponses : FinalAnswer(r)
    \/ pc = "fetch" /\ \E r \in NextResponses : Unprocessable(r)
    \/ pc = "tool" /\ \E out \in OutcomesOf(name) : ToolSettles(out)

Spec == Init /\ [][Next]_vars

\* The run goes on while it has a step to take: the code after an await
\* runs once the awaited call has settled, and every call settles.
FairSpec == Spec /\ WF_vars(Next)

(***************************************************************************)
(* Two concurrent runs.  A Worker isolate serves several requests on one   *)
(* thread: an invocation of handleChat runs until it awaits, and while it  *)
(* is suspended another invocation may run.  The variables pc .. outcomes  *)
(* are the locals of the invocation that is running; other holds the       *)
(* locals of the suspended one.  toolsUsed and contents are declared       *)
(* inside handleChat, so each invocation has its own.                      *)
(***************************************************************************)
OtherMessages == { << "How much is 1 USD in KRW?" >> }

\* The locals of the running invocation.
Frame ==
    [pc |-> pc, i |-> i, history |-> history, message |-> message,
     contents |-> contents, toolsUsed |-> toolsUsed, parts |-> parts,
     name |-> name, args |-> args, result |-> result, thrown |-> thrown,
     sent |-> sent, received |-> received, invoked |-> invoked,
     outcomes |-> outcomes]

\* The locals of an invocation handleChat(msg, hist, apiKey) at the head of
\* its loop.
NewRun(hist, msg) ==
    [pc |-> "loop", i |-> 0, history |-> hist, message |-> msg,
     contents |-> BuildContents(hist, msg), toolsUsed |-> << >>,
     parts |-> << >>, name |-> "", args |-> "", result |-> {},
     thrown |-> {}, sent |-> << >>, received |-> << >>, invoked |-> << >>,
     outcomes |-> << >>]

\* The function call the service asks for depends on the question.
CallFor(msg) == IF msg \in Messages THEN WeatherCall ELSE UnknownCall

\* The responses the service may give to an invocation for msg: those with
\* at most one segment, a function call being the one CallFor(msg) gives.
ResponsesTo(msg) ==
    { r \in Responses(0) :
        (r.json /\ r.ok /\ HasParts(r.data)
           /\ FunctionCallIndex(PartsOf(r.data)) # 0)
          => PartsOf(r.data) = << CallFor(msg) >> }

\* A switch between invocations that have toolsUsed in common, as if it were
\* declared at module level.
SwapSharingToolsUsed ==
    /\ other # << >>
    /\ pc # "loop" \/ sent = << >>
    /\ other[1].pc \notin { "done", "threw" }
    /\ other' = << Frame >>
    /\ pc' = other[1].pc
    /\ i' = other[1].i
    /\ history' = other[1].history
    /\ message' = other[1].message
    /\ contents' = other[1].contents
    /\ toolsUsed' = toolsUsed
    /\ parts' = other[1].parts
    /\ name' = other[1].name
    /\ args' = other[1].args
    /\ result' = other[1].result
    /\ thrown' = other[1].thrown
    /\ sent' = other[1].sent
    /\ received' = other[1].received
    /\ invoked' = other[1].invoked
    /\ outcomes' = other[1].outcomes
    /\ UNCHANGED << declared, request, response, widget >>

\* The running invocation is at an await (or has ended, or has not begun)
\* and the event loop resumes the other one, which has a step to take.
Swap ==
    /\ other # << >>
    /\ pc # "loop" \/ sent = << >>
    /\ other[1].pc \notin { "done", "threw" }
    /\ other' = << Frame >>
    /\ pc' = other[1].pc
    /\ i' = other[1].i
    /\ history' = other[1].history
    /\ message' = other[1].message
    /\ contents' = other[1].contents
    /\ toolsUsed' = other[1].toolsUsed
    /\ parts' = other[1].parts
    /\ name' = other[1].name
    /\ args' = other[1].args
    /\ result' = other[1].result
    /\ thrown' = other[1].thrown
    /\ sent' = other[1].sent
    /\ received' = other[1].received
    /\ invoked' = other[1].invoked
    /\ outcomes' = other[1].outcomes
    /\ UNCHANGED << declared, request, response, widget >>

\* Two invocations are pending: one for a message of Messages, one for a
\* message of OtherMessages.
TwoInit ==
    /\ Start
    /\ other \in { << NewRun(h, m) >> : h \in Histories, m \in OtherMessages }
    /\ declared = functionDeclarations
    /\ request = << >>
    /\ response = << >>
    /\ WidgetLoaded

TwoNext ==
    \/ CallGemini
    \/ BudgetExhausted
    \/ FetchRejects
    \/ pc = "fetch" /\ \E r \in ResponsesTo(message) : JsonRejects(r)
    \/ pc = "fetch" /\ \E r \in ResponsesTo(message) : ServiceError(r)
    \/ pc = "fetch" /\ \E r \in ResponsesTo(message) : NoCandidate(r)
    \/ pc = "fetch" /\ \E r \in ResponsesTo(message) : ToolCallRequested(r)
    \/ pc = "fetch" /\ \E r \in ResponsesTo(message) : FinalAnswer(r)
    \/ pc = "fetch" /\ \E r \in ResponsesTo(message) : Unprocessable(r)
    \/ pc = "tool" /\ \E out \in OutcomesOf(name) : ToolSettles(out)
    \/ Swap

TwoRuns == TwoInit /\ [][TwoNext]_vars

(***************************************************************************)
(* The fetch handler of src/src/index.ts on the route POST /api/chat.  It  *)
(* parses the body, validates message, reads the API key, awaits           *)
(* handleChat and turns its result, or the exception that left it, into    *)
(* the HTTP response.  A JavaScript value of the body is a record tagged   *)
(* with its type: [string |-> s], [number |-> n] or [null |-> TRUE].       *)
(***************************************************************************)
JsString(s) == [string |-> s]
JsNumber(n) == [number |-> n]
JsNull == [null |-> TRUE]

\* const { message, history } = body throws a TypeError when body is null.
Destructurable(body) == ~Has(body, "null")

\* !obj.key
IsFalsy(obj, key) ==
    IF ~Has(obj, key) THEN TRUE
    ELSE IF Has(obj[key], "string") THEN obj[key].string = << >>
    ELSE IF Has(obj[key], "number") THEN obj[key].number = 0
    ELSE FALSE

\* typeof obj.key === "string"
TypeofString(obj, key) == Has(obj, key) /\ Has(obj[key], "string")

\* The values of message in a body: 42, "" and the messages.
BodyMessages ==
    { JsNumber(42), JsString(<< >>) } \cup { JsString(m) : m \in Messages }

\* The arrays given as history in a body.
BodyHistories == Histories \ { << >> }

\* The parsed bodies: null, or an object with and without message, with and
\* without history.
Bodies ==
    { [message |-> v, history |-> h] : v \in BodyMessages, h \in BodyHistories }
    \cup { [message |-> v] : v \in BodyMessages }
    \cup { [history |-> h] : h \in BodyHistories }
    \cup { JsNull }

\* A request: whether its body parses as JSON, the parsed body, and whether
\* env.GEMINI_API_KEY is set.
Requests ==
    { [json |-> TRUE, body |-> b, key |-> k] : b \in Bodies, k \in BOOLEAN }
    \cup { [json |-> FALSE, key |-> TRUE] }

\* A test of message that lets the empty string through.
MessageNotString(body) == ~TypeofString(body, "message")

\* !message || typeof message !== "string"
MessageRejected(body) ==
    IsFalsy(body, "message") \/ ~TypeofString(body, "message")

\* history || []
HistoryOrEmpty(body) == IF Has(body, "history") THEN body.history ELSE << >>

\* The locals of handleChat other than its position.
locals == << i, history, message, contents, toolsUsed, parts, name, args,
             result, thrown, sent, received, invoked, outcomes >>

\* The handler has matched the route and awaits request.json(); handleChat
\* has not been called.
WorkerInit ==
    /\ pc = "request"
    /\ request \in { << q >> : q \in Requests }
    /\ response = << >>
    /\ i = 0
    /\ history = << >>
    /\ message = << >>
    /\ contents = << >>
    /\ toolsUsed = << >>
    /\ parts = << >>
    /\ name = ""
    /\ args = ""
    /\ result = {}
    /\ thrown = {}
    /\ sent = << >>
    /\ received = << >>
    /\ invoked = << >>
    /\ outcomes = << >>
    /\ other = << >>
    /\ declared = functionDeclarations
    /\ WidgetLoaded

\* return Response.json(body, { status })
Respond(status, body) ==
    /\ response' = << [status |-> status, body |-> body] >>
    /\ pc' = "responded"
    /\ UNCHANGED << locals, other, declared, request, widget >>

\* await request.json() rejects; catch (err) answers 500.
BodyRejects ==
    /\ pc = "request"
    /\ ~request[1].json
    /\ Respond(500, [error |-> << "Unexpected end of JSON input" >>])

\* const { message, history } = body throws; catch (err) answers 500.
DestructuringThrows ==
    /\ pc = "request"
    /\ request[1].json
    /\ ~Destructurable(request[1].body)
    /\ Respond(500, [error |-> << "Cannot destructure property 'message'" >>])

\* if (!message || typeof message !== "string") return 400
MessageRequired ==
    /\ pc = "request"
    /\ request[1].json
    /\ Destructurable(request[1].body)
    /\ MessageRejected(request[1].body)
    /\ Respond(400, [error |-> << "message is required" >>])

\* if (!apiKey) return 500
KeyNotConfigured ==
    /\ pc = "request"
    /\ request[1].json
    /\ Destructurable(request[1].body)
    /\ ~MessageRejected(request[1].body)
    /\ ~request[1].key
    /\ Respond(500, [error |-> << "GEMINI_API_KEY not configured" >>])

\* await handleChat(message, history || [], apiKey): the call runs to the
\* head of its loop.
CallHandleChat ==
    /\ pc = "request"
    /\ request[1].json
    /\ Destructurable(request[1].body)
    /\ ~MessageRejected(request[1].body)
    /\ request[1].key
    /\ history' = HistoryOrEmpty(request[1].body)
    /\ message' = request[1].body.message.string
    /\ contents' = BuildContents(HistoryOrEmpty(request[1].body),
                                 request[1].body.message.string)
    /\ pc' = "loop"
    /\ UNCHANGED << outer, i, toolsUsed, parts, name, args, result, thrown,
                    sent, received, invoked, outcomes >>

\* return Response.json(result)
RespondResult ==
    /\ pc = "done"
    /\ Respond(200, CHOOSE v \in result : TRUE)

\* catch (err) { return Response.json({ error: err.message }, { status: 500 }) }
RespondError ==
    /\ pc = "threw"
    /\ Respond(500, [error |-> (CHOOSE e \in thrown : TRUE).message])

WorkerNext ==
    \/ BodyRejects
    \/ DestructuringThrows
    \/ MessageRequired
    \/ KeyNotConfigured
    \/ CallHandleChat
    \/ CallGemini
    \/ BudgetExhausted
    \/ FetchRejects
    \/ pc = "fetch" /\ \E r \in NextResponses : JsonRejects(r)
    \/ pc = "fetch" /\ \E r \in NextResponses : ServiceError(r)
    \/ pc = "fetch" /\ \E r \in NextResponses : NoCandidate(r)
    \/ pc = "fetch" /\ \E r \in NextResponses : ToolCallRequested(r)
    \/ pc = "fetch" /\ \E r \in NextResponses : FinalAnswer(r)
    \/ pc = "fetch" /\ \E r \in NextResponses : Unprocessable(r)
    \/ pc = "tool" /\ \E out \in OutcomesOf(name) : ToolSettles(out)
    \/ RespondResult
    \/ RespondError

Worker == WorkerInit /\ [][WorkerNext]_vars

(***************************************************************************)
(* The chat widget of src/src/ui.ts.  sendMessage is triggered by a click  *)
(* on the send button and by the Enter key; it runs to its await, and the  *)
(* rest of it runs when the request settles.  The server is the widget's   *)
(* environment: it answers { reply, tools_used }, or { error }, or a body  *)
(* that is not JSON, or the request fails in transport.                    *)
(***************************************************************************)
\* The widget sends at most this many requests.
MaxSends == 3

Whitespace == { " ", "\n" }

RECURSIVE TrimStart(_)
TrimStart(str) ==
    IF str # << >> /\ Head(str) \in Whitespace THEN TrimStart(Tail(str)) ELSE str

RECURSIVE TrimEnd(_)
TrimEnd(str) ==
    IF str # << >> /\ str[Len(str)] \in Whitespace
    THEN TrimEnd(SubSeq(str, 1, Len(str) - 1))
    ELSE str

\* String.prototype.trim
Trim(str) == TrimEnd(TrimStart(str))

\* What the user may have in the textarea.
Texts == { << >>, << " " >>, << "hello" >>, << " ", "and again", "\n" >> }

\* The keydown events of the textarea.
KeyEvents ==
    { [key |-> "Enter", shiftKey |-> FALSE],
      [key |-> "Enter", shiftKey |-> TRUE],
      [key |-> "a", shiftKey |-> FALSE] }

\* The parsed bodies of the server's answers: a result of handleChat, and
\* the error object of the handler's 400 and 500 answers.
WidgetData ==
    { [reply |-> JsString(TextPart.text), tools_used |-> << "weather" >>],
      [reply |-> JsString(BudgetReply), tools_used |-> << >>],
      [error |-> JsString(<< "fetch failed" >>)] }

\* How the request of sendMessage settles: fetch rejects, or it resolves
\* with a body that is not JSON, or with a parsed body.
WidgetOutcomes ==
    { [rejected |-> TRUE], [rejected |-> FALSE, json |-> FALSE] }
    \cup { [rejected |-> FALSE, json |-> TRUE, data |-> d] : d \in WidgetData }

\* history.slice(0, -1)
SliceOffLast(arr) == SubSeq(arr, 1, Len(arr) - 1)

\* The bubble addMessage(role, text, toolsUsed) appends to the message list.
Bubble(role, text) == [role |-> role, text |-> text]

ErrorBubble == Bubble("assistant", << "an error occurred, please retry" >>)

\* renderMarkdown(text) calls text.replace: it throws unless text is a
\* string.
RenderThrows(data) ==
    IF Has(data, "reply") THEN ~Has(data.reply, "string") ELSE TRUE

\* The try block of sendMessage throws: fetch rejected, res.json() rejected,
\* or addMessage threw on data.reply.
TryThrows(out) ==
    IF out.rejected THEN TRUE
    ELSE IF ~out.json THEN TRUE
    ELSE RenderThrows(out.data)

\* The state outside the widget.
server == << pc, locals, other, declared, request, response >>

\* A sendMessage without the test of isLoading.
sendMessageWhileLoading ==
    IF Trim(inputValue) = << >>
    THEN /\ lastTrigger' = "ignored"
         /\ UNCHANGED << uiHistory, isLoading, sendBtnDisabled, inputValue,
                         messagesEl, inFlight, posted >>
    ELSE /\ isLoading' = TRUE
         /\ sendBtnDisabled' = TRUE
         /\ inputValue' = << >>
         /\ messagesEl' = Append(messagesEl, Bubble("user", Trim(inputValue)))
         /\ uiHistory' =
              Append(uiHistory, [role |-> "user", text |-> JsString(Trim(inputValue))])
         /\ posted' = Append(posted, [message |-> Trim(inputValue), history |-> uiHistory])
         /\ inFlight' = inFlight + 1
         /\ lastTrigger' = "sent"

\* sendMessage() up to its await: if (!text || isLoading) return; otherwise
\* the user bubble and history entry are added and the request is sent.
sendMessage ==
    LET text == Trim(inputValue)
    IN  IF text = << >> \/ isLoading
        THEN /\ lastTrigger' = "ignored"
             /\ UNCHANGED << uiHistory, isLoading, sendBtnDisabled, inputValue,
                             messagesEl, inFlight, posted >>
        ELSE /\ isLoading' = TRUE
             /\ sendBtnDisabled' = TRUE
             /\ inputValue' = << >>
             /\ messagesEl' = Append(messagesEl, Bubble("user", text))
             /\ uiHistory' =
                  Append(uiHistory, [role |-> "user", text |-> JsString(text)])
             /\ posted' =
                  Append(posted,
                         [message |-> text,
                          history |-> SliceOffLast(
                              Append(uiHistory,
                                     [role |-> "user", text |-> JsString(text)]))])
             /\ inFlight' = inFlight + 1
             /\ lastTrigger' = "sent"

\* The user edits the textarea.
Type(t) ==
    /\ Len(posted) < MaxSends \/ Trim(t) = << >>
    /\ inputValue' = t
    /\ UNCHANGED << server, uiHistory, isLoading, sendBtnDisabled, messagesEl,
                    inFlight, posted, lastTrigger >>

\* onclick="sendMessage()": a disabled button gives no click.
Click ==
    /\ ~sendBtnDisabled
    /\ sendMessage
    /\ UNCHANGED server

\* handleKey(e): Enter without Shift calls sendMessage.
KeyDown(e) ==
    /\ IF e.key = "Enter" /\ ~e.shiftKey
       THEN sendMessage
       ELSE UNCHANGED widget
    /\ UNCHANGED server

\* The request settled and the try block ran through: the reply is shown
\* and pushed to history.
ReplyShown(out) ==
    /\ inFlight > 0
    /\ ~TryThrows(out)
    /\ messagesEl' = Append(messagesEl, Bubble("assistant", out.data.reply.string))
    /\ uiHistory' =
         Append(uiHistory, [role |-> "assistant", text |-> out.data.reply])
    /\ isLoading' = FALSE
    /\ sendBtnDisabled' = FALSE
    /\ inFlight' = inFlight - 1
    /\ UNCHANGED << server, inputValue, posted, lastTrigger >>

\* The request settled and the try block threw: the catch block shows the
\* error bubble.
ErrorShown(out) ==
    /\ inFlight > 0
    /\ TryThrows(out)
    /\ messagesEl' = Append(messagesEl, ErrorBubble)
    /\ isLoading' = FALSE
    /\ sendBtnDisabled' = FALSE
    /\ inFlight' = inFlight - 1
    /\ UNCHANGED << server, uiHistory, inputValue, posted, lastTrigger >>

\* The page is loaded; no request is being served by this model's server.
WidgetInit ==
    /\ WidgetLoaded
    /\ pc = "idle"
    /\ i = 0
    /\ history = << >>
    /\ message = << >>
    /\ contents = << >>
    /\ toolsUsed = << >>
    /\ parts = << >>
    /\ name = ""
    /\ args = ""
    /\ result = {}
    /\ thrown = {}
    /\ sent = << >>
    /\ received = << >>
    /\ invoked = << >>
    /\ outcomes = << >>
    /\ other = << >>
    /\ declared = functionDeclarations
    /\ request = << >>
    /\ response = << >>

WidgetNext ==
    \/ \E t \in Texts : Type(t)
    \/ Click
    \/ \E e \in KeyEvents : KeyDown(e)
    \/ \E out \in WidgetOutcomes : ReplyShown(out)
    \/ \E out \in WidgetOutcomes : ErrorShown(out)

Widget == WidgetInit /\ [][WidgetNext]_vars

(***************************************************************************)
(* Vocabulary of the claims.  These definitions read the logs of the run   *)
(* (sent, received, invoked, outcomes) and the transcript; none of them    *)
(* uses the operators that model the code's decisions.                     *)
(***************************************************************************)
\* The index in contents of the user turn that carries the new message.
Base == Len(history) + 1

IsCallSegment(p) == "functionCall" \in DOMAIN p
IsResponseSegment(p) == "functionResponse" \in DOMAIN p
IsTextSegment(p) == "text" \in DOMAIN p

\* The response is a parsed success response with at least one segment.
HasSegments(r) ==
    /\ r.json /\ r.ok
    /\ "candidates" \in DOMAIN r.data
    /\ Len(r.data.candidates) > 0
    /\ "content" \in DOMAIN r.data.candidates[1]
    /\ Len(r.data.candidates[1].content.parts) > 0

SegmentsOf(r) == r.data.candidates[1].content.parts

\* The response asks for a tool: one of its segments is a function call.
RequestsTool(r) ==
    HasSegments(r) /\ \E k \in 1..Len(SegmentsOf(r)) : IsCallSegment(SegmentsOf(r)[k])

\* The first function call of a list of segments, in segment order.
FirstCall(ps) ==
    LET k == CHOOSE m \in 1..Len(ps) :
                 /\ IsCallSegment(ps[m])
                 /\ \A j \in 1..(m - 1) : ~IsCallSegment(ps[j])
    IN  ps[k].functionCall

NamesOf(calls) == [k \in 1..Len(calls) |-> calls[k].name]

Last(seq) == seq[Len(seq)]

\* The reply handleChat returned (only when pc = "done").
TheResult == CHOOSE r \in result : TRUE

(***************************************************************************)
(* C1.  For every outcome of a completion call and of a tool, handleChat   *)
(* returns a value of shape { reply, tools_used } and no exception leaves  *)
(* it.                                                                     *)
(***************************************************************************)
C1_NoExceptionEscapes ==
    /\ pc # "threw"
    /\ thrown = {}
    /\ pc = "done" =>
         /\ Cardinality(result) = 1
         /\ DOMAIN TheResult = { "reply", "tools_used" }

ResponsesNamed(turn, nm) ==
    { k \in 1..Len(turn.parts) :
        /\ IsResponseSegment(turn.parts[k])
        /\ turn.parts[k].functionResponse.name = nm }

CallAnswered(turns, t, k) ==
    /\ t < Len(turns)
    /\ turns[t + 1].role = "user"
    /\ Cardinality(ResponsesNamed(turns[t + 1],
                                  turns[t].parts[k].functionCall.name)) = 1

(***************************************************************************)
(* C2.  At each completion call, every function-call segment of a model    *)
(* turn of the transcript sent is followed, in the next turn, by exactly   *)
(* one functionResponse segment with the same name.                        *)
(***************************************************************************)
C2_EveryCallAnswered ==
    \A s \in 1..Len(sent) :
      \A t \in 1..Len(sent[s]) :
        \A k \in 1..Len(sent[s][t].parts) :
          (sent[s][t].role = "model" /\ IsCallSegment(sent[s][t].parts[k]))
             => CallAnswered(sent[s], t, k)

(***************************************************************************)
(* C3.  In every state of a run, toolsUsed holds at most MAX_TOOL_CALLS    *)
(* names and executeTool has been called at most MAX_TOOL_CALLS times.     *)
(***************************************************************************)
C3_AtMostMaxToolCalls ==
    /\ MAX_TOOL_CALLS = 5
    /\ Len(toolsUsed) <= MAX_TOOL_CALLS
    /\ Len(invoked) <= MAX_TOOL_CALLS

C3_Witness ==
    /\ pc = "done"
    /\ Len(toolsUsed) = MAX_TOOL_CALLS
    /\ Len(invoked) = MAX_TOOL_CALLS

KeepsRequesting ==
    /\ Len(received) = 5
    /\ \A j \in 1..5 : RequestsTool(received[j])

RequestedNames ==
    [j \in 1..Len(received) |-> FirstCall(SegmentsOf(received[j])).name]

(***************************************************************************)
(* C4.  When the service answers every call with a tool-call request, the  *)
(* run makes 5 completion calls and 5 tool calls, no 6th of either, and    *)
(* returns the budget-exhausted reply with the 5 requested names in order. *)
(***************************************************************************)
C4_StopsAfterFifthCall ==
    /\ Len(sent) <= 5
    /\ Len(invoked) <= 5
    /\ (KeepsRequesting /\ pc # "tool") =>
         /\ Len(sent) = 5
         /\ Len(invoked) = 5
         /\ NamesOf(invoked) = RequestedNames
         /\ pc \in { "loop", "done" }
         /\ pc = "loop" => (~ENABLED CallGemini /\ ENABLED BudgetExhausted)
         /\ pc = "done" =>
              result = { [reply |-> BudgetReply, tools_used |-> RequestedNames] }

C4_Witness ==
    /\ KeepsRequesting
    /\ pc = "done"
    /\ TheResult.reply = BudgetReply
    /\ TheResult.tools_used[1] # TheResult.tools_used[5]

(***************************************************************************)
(* The turns of a settled tool call.  The k-th call of a run appends the   *)
(* turns Base + 2k - 1 (model) and Base + 2k (user) to the transcript.     *)
(***************************************************************************)
ModelTurnAt(k) == Base + 2 * k - 1

ResultTurnAt(k) == Base + 2 * k

\* The transcript holds a tool-result turn for the k-th call, carrying text.
HasResultTurn(k, text) ==
    /\ Len(contents) >= ResultTurnAt(k)
    /\ contents[ResultTurnAt(k)] =
         [role |-> "user",
          parts |-> << [functionResponse |->
                          [name |-> invoked[k].name,
                           response |-> [result |-> text]]] >>]

\* After the k-th call settled, the next completion call is the next step of
\* the run or has been made already.
NextCallMade(k) ==
    IF Len(sent) = k THEN pc = "loop" /\ ENABLED CallGemini ELSE Len(sent) > k

\* After the k-th call settled, the run ends budget-exhausted.
EndsBudgetExhausted ==
    \/ pc = "loop" /\ ENABLED BudgetExhausted /\ ~ENABLED CallGemini
    \/ pc = "done" /\ TheResult.reply = BudgetReply

Registered == { functionDeclarations[k] : k \in 1..Len(functionDeclarations) }

UnknownToolReported(k) ==
    /\ toolsUsed[k] = invoked[k].name
    /\ k > Len(outcomes) => (k = Len(invoked) /\ pc = "tool")
    /\ k <= Len(outcomes) =>
         /\ ~outcomes[k].threw
         /\ HasResultTurn(k, << "unknown tool: ", invoked[k].name >>)

(***************************************************************************)
(* C6 as stated.  A request for a name that is not registered does not     *)
(* throw, gives an "unknown tool" string, is recorded in toolsUsed and     *)
(* appended as the tool result, and the run continues to the next          *)
(* completion call instead of terminating.                                 *)
(***************************************************************************)
C6_UnknownToolContinues ==
    \A k \in 1..Len(invoked) :
      invoked[k].name \notin Registered =>
        /\ UnknownToolReported(k)
        /\ k <= Len(outcomes) => NextCallMade(k)

(***************************************************************************)
(* C6 as amended.  The same, but the run continues to the next completion  *)
(* call only when fewer than MAX_TOOL_CALLS tools have been called; after  *)
(* the 5th call the run ends budget-exhausted.                             *)
(***************************************************************************)
C6_UnknownToolContinuesWithinBudget ==
    \A k \in 1..Len(invoked) :
      invoked[k].name \notin Registered =>
        /\ UnknownToolReported(k)
        /\ k <= Len(outcomes) =>
             IF k < 5 THEN NextCallMade(k) ELSE EndsBudgetExhausted

C6_Witness ==
    /\ Len(sent) = 2
    /\ Len(invoked) = 1
    /\ invoked[1].name = "unknown_tool"
    /\ toolsUsed = << "unknown_tool" >>
    /\ HasResultTurn(1, << "unknown tool: ", "unknown_tool" >>)

(***************************************************************************)
(* C7.  A completion call that returns a non-success status after k tool   *)
(* calls ends the run at once with an error reply whose tools_used is the  *)
(* k names so far; no completion call and no tool call follows.            *)
(***************************************************************************)
C7_NonSuccessEndsWithErrorReply ==
    (received # << >> /\ ~Last(received).ok) =>
      /\ pc = "done"
      /\ Len(TheResult.reply) > 1
      /\ SubSeq(TheResult.reply, 1, 1) = ApiErrorPrefix
      /\ TheResult.tools_used = NamesOf(invoked)
      /\ Len(sent) = Len(received)
      /\ Len(invoked) = Len(received) - 1
      /\ Len(outcomes) = Len(invoked)

IsPlainResponse(r) ==
    HasSegments(r) /\ \A k \in 1..Len(SegmentsOf(r)) : ~IsCallSegment(SegmentsOf(r)[k])

TextsOf(ps) == { ps[k].text : k \in { m \in 1..Len(ps) : IsTextSegment(ps[m]) } }

EndsWithoutToolCall ==
    /\ pc = "done"
    /\ TheResult.tools_used = NamesOf(invoked)
    /\ Len(invoked) = Len(received) - 1
    /\ Len(outcomes) = Len(invoked)
    /\ Len(sent) = Len(received)

(***************************************************************************)
(* C8 as stated.  A response with a text segment and no function-call      *)
(* segment ends the run with that segment's text as the reply, whatever    *)
(* the text, and with the names of the tools called before; no tool is     *)
(* called for it.                                                          *)
(***************************************************************************)
C8_TextIsTheReply ==
    (/\ received # << >>
     /\ IsPlainResponse(Last(received))
     /\ TextsOf(SegmentsOf(Last(received))) # {}) =>
       /\ EndsWithoutToolCall
       /\ TheResult.reply \in TextsOf(SegmentsOf(Last(received)))

FirstNonEmptyText(ps) ==
    LET k == CHOOSE m \in 1..Len(ps) :
                 /\ IsTextSegment(ps[m]) /\ ps[m].text # << >>
                 /\ \A j \in 1..(m - 1) :
                      ~(IsTextSegment(ps[j]) /\ ps[j].text # << >>)
    IN  ps[k].text

(***************************************************************************)
(* C8 as amended.  A response with a non-empty text segment and no         *)
(* function-call segment ends the run with the text of its first non-empty *)
(* text segment as the reply; a text segment whose text is "" is not an    *)
(* answer, and a response whose text segments are all empty ends the run   *)
(* with the could-not-process reply.                                       *)
(***************************************************************************)
C8_NonEmptyTextIsTheReply ==
    (/\ received # << >>
     /\ IsPlainResponse(Last(received))
     /\ TextsOf(SegmentsOf(Last(received))) # {}) =>
       /\ EndsWithoutToolCall
       /\ IF TextsOf(SegmentsOf(Last(received))) = { << >> }
          THEN TheResult.reply = UnprocessableReply
          ELSE TheResult.reply = FirstNonEmptyText(SegmentsOf(Last(received)))

C8_Witness ==
    /\ pc = "done"
    /\ Len(received) = 2
    /\ HasSegments(Last(received))
    /\ SegmentsOf(Last(received)) = << EmptyTextPart, OtherTextPart >>
    /\ TheResult = [reply |-> OtherTextPart.text, tools_used |-> << "weather" >>]

ToolRequests == { j \in 1..Len(received) : RequestsTool(received[j]) }

(***************************************************************************)
(* C9.  A response with function-call segments causes exactly one tool     *)
(* call, that of its first function-call segment in segment order, and     *)
(* adds exactly that name to toolsUsed, also when it holds several         *)
(* function calls; a response with text and a function call is handled as  *)
(* a tool-call request, not as a final answer.                             *)
(***************************************************************************)
C9_FirstCallOnly ==
    /\ Len(invoked) = Cardinality(ToolRequests)
    /\ Len(toolsUsed) = Len(invoked)
    /\ \A j \in ToolRequests :
         /\ j <= Len(invoked)
         /\ invoked[j] = FirstCall(SegmentsOf(received[j]))
         /\ toolsUsed[j] = FirstCall(SegmentsOf(received[j])).name
         /\ j = Len(received) => (result = {} \/ TheResult.reply = BudgetReply)

C9_Witness ==
    /\ Len(received) = 2
    /\ HasSegments(received[2])
    /\ SegmentsOf(received[2]) = << UnknownCall, WeatherCall >>
    /\ Len(outcomes) = 2
    /\ toolsUsed = << "weather", "unknown_tool" >>

RawTurn(j) == [role |-> "model", parts |-> SegmentsOf(received[j])]

(***************************************************************************)
(* C10.  The model turn appended for a tool-call response is the segment   *)
(* list the service returned, unchanged, and it is the same in every later *)
(* completion request of the run.                                          *)
(***************************************************************************)
C10_RawTurnRoundTrip ==
    \A j \in 1..Len(outcomes) :
      /\ Len(contents) >= ModelTurnAt(j)
      /\ contents[ModelTurnAt(j)] = RawTurn(j)
      /\ \A s \in (j + 1)..Len(sent) :
           /\ Len(sent[s]) >= ModelTurnAt(j)
           /\ sent[s][ModelTurnAt(j)] = RawTurn(j)

C10_Witness ==
    /\ Len(sent) = 3
    /\ SegmentsOf(received[1]) = << TextPart, WeatherCall >>
    /\ sent[3][ModelTurnAt(1)].parts[2].thoughtSignature = "sigB"

\* The run ended with a final text answer: the last response held no function
\* call and the reply is one of its texts.
EndsWithFinalAnswer ==
    /\ pc = "done"
    /\ received # << >>
    /\ IsPlainResponse(Last(received))
    /\ TheResult.reply # << >>
    /\ TheResult.reply \in TextsOf(SegmentsOf(Last(received)))

\* The turns appended after the user turn that carries the new message.
Appended == SubSeq(contents, Base + 1, Len(contents))

\* The k-th two turns of Appended are a model turn with a function call and
\* a user turn whose only segment is a function response.
IsCallResultPair(k) ==
    /\ Len(Appended) >= 2 * k
    /\ Appended[2 * k - 1].role = "model"
    /\ \E m \in 1..Len(Appended[2 * k - 1].parts) :
         IsCallSegment(Appended[2 * k - 1].parts[m])
    /\ Appended[2 * k].role = "user"
    /\ Len(Appended[2 * k].parts) = 1
    /\ IsResponseSegment(Appended[2 * k].parts[1])

(***************************************************************************)
(* C11.  When a run ends with a final text answer, the turns appended      *)
(* after the initial user turn are exactly Len(tools_used) pairs of a      *)
(* model tool-call turn and a user tool-result turn, and the result of the *)
(* k-th pair names the k-th entry of tools_used.                           *)
(***************************************************************************)
C11_PairsMatchToolsUsed ==
    EndsWithFinalAnswer =>
      /\ Len(Appended) = 2 * Len(TheResult.tools_used)
      /\ \A k \in 1..Len(TheResult.tools_used) :
           /\ IsCallResultPair(k)
           /\ Appended[2 * k].parts[1].functionResponse.name
                = TheResult.tools_used[k]

C11_Witness ==
    /\ EndsWithFinalAnswer
    /\ TheResult.tools_used = << "weather", "unknown_tool" >>
    /\ Len(Appended) = 4
    /\ Appended[4].parts[1].functionResponse.name = "unknown_tool"

\* A text that holds the system instruction.
HoldsSystemPrompt(text) ==
    \E k \in 1..Len(text) : \E m \in 1..Len(systemPrompt) : text[k] = systemPrompt[m]

\* The text begins with the system instruction and ends with msg.
IsPromptThenMessage(text, msg) ==
    /\ Len(text) > Len(systemPrompt) + Len(msg)
    /\ SubSeq(text, 1, Len(systemPrompt)) = systemPrompt
    /\ SubSeq(text, Len(text) - Len(msg) + 1, Len(text)) = msg

\* The role a history entry is given in the transcript.
MappedRole(role) == IF role = "assistant" THEN "model" ELSE "user"

(***************************************************************************)
(* C12.  The transcript of the first completion call has Len(history) + 1  *)
(* turns: the history entries in order, each with its text and with role   *)
(* assistant as model and user as user, then a user turn.  The text of     *)
(* that turn is the system instruction followed by the message exactly     *)
(* when history is empty; otherwise it is the message itself and no turn   *)
(* holds the system instruction.                                           *)
(***************************************************************************)
C12_InitialTranscript ==
    Len(sent) >= 1 =>
      LET first == sent[1]
          last == first[Len(first)]
      IN  /\ Len(first) = Len(history) + 1
          /\ \A k \in 1..Len(history) :
               /\ first[k].role = MappedRole(history[k].role)
               /\ first[k].parts = << [text |-> history[k].text] >>
          /\ last.role = "user"
          /\ DOMAIN last.parts = { 1 }
          /\ DOMAIN last.parts[1] = { "text" }
          /\ IsPromptThenMessage(last.parts[1].text, message) <=> history = << >>
          /\ HoldsSystemPrompt(last.parts[1].text) <=> history = << >>
          /\ history # << >> =>
               /\ last.parts[1].text = message
               /\ \A k \in 1..Len(first) :
                    ~HoldsSystemPrompt(first[k].parts[1].text)

C12_Witness ==
    /\ Len(sent) >= 1
    /\ Len(history) = 2
    /\ Len(sent[1]) = 3
    /\ sent[1][1].role = "user"
    /\ sent[1][2].role = "model"
    /\ sent[1][3] = [role |-> "user", parts |-> << [text |-> message] >>]

\* Completion calls issued and not yet returned.  A call whose fetch
\* rejected is never logged in received: it is counted as outstanding, which
\* only makes the bound below harder to meet.
CompletionsOutstanding == Len(sent) - Len(received)

\* Tool calls started and not yet settled.
ToolCallsOutstanding == Len(invoked) - Len(outcomes)

(***************************************************************************)
(* C13.  At most one outbound operation of a run is outstanding at any     *)
(* moment; the k-th tool call starts only after the k-th completion call   *)
(* has returned, and the (k+1)-th completion call starts only after the    *)
(* k-th tool call has settled.                                             *)
(***************************************************************************)
C13_OneOutboundAtATime ==
    /\ CompletionsOutstanding \in { 0, 1 }
    /\ ToolCallsOutstanding \in { 0, 1 }
    /\ CompletionsOutstanding + ToolCallsOutstanding <= 1
    /\ Len(invoked) <= Len(received)
    /\ Len(sent) <= Len(outcomes) + 1

C13_Witness ==
    /\ pc = "tool"
    /\ Len(sent) = 2
    /\ Len(received) = 2
    /\ Len(invoked) = 2
    /\ Len(outcomes) = 1

\* The runs of the system: the running one and the suspended one.
Runs == { Frame } \cup { other[k] : k \in 1..Len(other) }

\* What a run's own responses asked for: the name of the first function call
\* of the response that led to each of its tool calls.
OwnNames(f) ==
    [k \in 1..Len(f.invoked) |-> FirstCall(SegmentsOf(f.received[k])).name]

\* The tool-result string of the run's k-th call, from the way its own
\* executor ended.
OwnToolResult(f, k) ==
    IF "value" \in DOMAIN f.outcomes[k] THEN f.outcomes[k].value
    ELSE IF f.outcomes[k].threw
         THEN << "tool execution error (", f.invoked[k].name, "): " >>
                \o f.outcomes[k].message
         ELSE << "unknown tool: ", f.invoked[k].name >>

\* The transcript of a run is made of its own history and message and of the
\* turns of its own settled tool calls, and nothing else.
OwnTranscript(f) ==
    LET base == Len(f.history) + 1
        text == f.contents[base].parts[1].text
    IN  /\ Len(f.contents) = base + 2 * Len(f.outcomes)
        /\ \A k \in 1..Len(f.history) :
             f.contents[k].parts = << [text |-> f.history[k].text] >>
        /\ Len(text) >= Len(f.message)
        /\ SubSeq(text, Len(text) - Len(f.message) + 1, Len(text)) = f.message
        /\ \A k \in 1..Len(f.outcomes) :
             /\ f.contents[base + 2 * k - 1] =
                  [role |-> "model", parts |-> SegmentsOf(f.received[k])]
             /\ f.contents[base + 2 * k] =
                  [role |-> "user",
                   parts |-> << [functionResponse |->
                                   [name |-> f.invoked[k].name,
                                    response |-> [result |-> OwnToolResult(f, k)]]] >>]
        /\ \A s \in 1..Len(f.sent) :
             f.sent[s] = SubSeq(f.contents, 1, base + 2 * (s - 1))

\* The reply a run gives when it is the only one, as a function of the last
\* response it received.
AloneReply(r) ==
    IF ~r.json THEN << >>
    ELSE IF ~r.ok
    THEN ApiErrorPrefix \o
           (IF "error" \in DOMAIN r.data THEN r.data.error.message
            ELSE JSONstringify(r.data))
    ELSE IF ~HasSegments(r) THEN NoResponseReply
    ELSE IF RequestsTool(r) THEN BudgetReply
    ELSE IF TextsOf(SegmentsOf(r)) \in { {}, { << >> } } THEN UnprocessableReply
    ELSE FirstNonEmptyText(SegmentsOf(r))

(***************************************************************************)
(* C14.  In every interleaving of two handleChat runs at their awaits,     *)
(* each run's toolsUsed holds only the names its own responses asked for,  *)
(* its transcript and its requests hold only its own history, message and  *)
(* tool-call turns, and the value it returns is the one determined by its  *)
(* own responses and tool outcomes, as when it runs alone; the state the   *)
(* runs have in common, functionDeclarations, keeps its initial value.     *)
(***************************************************************************)
C14_RunsAreIsolated ==
    /\ declared = functionDeclarations
    /\ \A f \in Runs :
         /\ f.toolsUsed = OwnNames(f)
         /\ OwnTranscript(f)
         /\ f.pc = "done" =>
              f.result = { [reply |-> AloneReply(Last(f.received)),
                            tools_used |-> OwnNames(f)] }

C14_Witness ==
    /\ other # << >>
    /\ pc = "done"
    /\ TheResult.tools_used = << "weather", "weather" >>
    /\ TheResult.reply = TextPart.text
    /\ other[1].pc = "tool"
    /\ other[1].toolsUsed = << "unknown_tool", "unknown_tool" >>
    /\ Len(other[1].contents) = Len(other[1].history) + 3

\* The names a run has asked executeTool for.
NamesInvoked == { invoked[k].name : k \in 1..Len(invoked) }

\* An executor ran for the k-th settled call: the call ended the way an
\* executor ends, with a value or with a failure.
ExecutorRan(k) == "value" \in DOMAIN outcomes[k] \/ outcomes[k].threw

(***************************************************************************)
(* C15.  The names declared in functionDeclarations are the names          *)
(* executeTool dispatches on, no name is declared twice, each declared     *)
(* name has one executor and no other name has any; in a run, an executor  *)
(* runs for a call exactly when the name called is declared.               *)
(***************************************************************************)
C15_DeclaredIsDispatched ==
    /\ Registered = SwitchCases
    /\ Cardinality(Registered) = Len(functionDeclarations)
    /\ \A nm \in Registered : ExecutorOf(nm) # "none"
    /\ \A nm \in (SwitchCases \cup NamesInvoked) \ Registered :
         ExecutorOf(nm) = "none"
    /\ \A k \in 1..Len(outcomes) :
         ExecutorRan(k) <=> invoked[k].name \in Registered

C15_Witness ==
    /\ Len(outcomes) = 2
    /\ invoked[1].name = "weather"
    /\ ExecutorRan(1)
    /\ invoked[2].name = "unknown_tool"
    /\ ~ExecutorRan(2)
    /\ ExecutorOf("unknown_tool") = "none"

\* A parsed success response that holds no answer: no candidate, a candidate
\* without segments, or segments none of which is a function call or a text.
IsMalformed(r) ==
    /\ r.json /\ r.ok
    /\ \/ ~HasSegments(r)
       \/ \A k \in 1..Len(SegmentsOf(r)) :
            ~IsCallSegment(SegmentsOf(r)[k]) /\ ~IsTextSegment(SegmentsOf(r)[k])

(***************************************************************************)
(* C16.  A success response with no candidate, with a candidate without    *)
(* segments, or with segments that are neither function call nor text ends *)
(* the run at once with a fixed generic reply (the no-response reply when  *)
(* there is no segment, the could-not-process reply otherwise) and the     *)
(* names recorded so far; no tool call and no completion call follows.     *)
(***************************************************************************)
C16_MalformedEndsWithGenericReply ==
    (received # << >> /\ IsMalformed(Last(received))) =>
      /\ EndsWithoutToolCall
      /\ TheResult.reply =
           IF HasSegments(Last(received)) THEN UnprocessableReply
           ELSE NoResponseReply

C16_Witness ==
    /\ Len(received) = 2
    /\ HasSegments(Last(received))
    /\ SegmentsOf(Last(received)) = << OpaquePart >>
    /\ pc = "done"
    /\ TheResult = [reply |-> UnprocessableReply, tools_used |-> << "weather" >>]

\* A user turn whose only segment is a function response.
IsToolResultTurn(turn) ==
    /\ turn.role = "user"
    /\ Len(turn.parts) = 1
    /\ IsResponseSegment(turn.parts[1])

(***************************************************************************)
(* C17.  The transcript of the (k+1)-th completion request is the          *)
(* transcript of the k-th request, unchanged, followed by exactly two      *)
(* turns: the raw model turn of the k-th response, then a user turn with   *)
(* the tool result; the transcript the run holds extends the last one      *)
(* sent.                                                                   *)
(***************************************************************************)
C17_TranscriptAppendOnly ==
    /\ \A k \in 1..(Len(sent) - 1) :
         /\ Len(sent[k + 1]) = Len(sent[k]) + 2
         /\ SubSeq(sent[k + 1], 1, Len(sent[k])) = sent[k]
         /\ sent[k + 1][Len(sent[k]) + 1] = RawTurn(k)
         /\ IsToolResultTurn(sent[k + 1][Len(sent[k]) + 2])
    /\ sent # << >> =>
         /\ Len(contents) >= Len(Last(sent))
         /\ SubSeq(contents, 1, Len(Last(sent))) = Last(sent)

C17_Witness ==
    /\ Len(sent) = 3
    /\ Len(history) = 2
    /\ Len(sent[3]) = Len(sent[1]) + 4
    /\ SubSeq(sent[3], 1, 5) = sent[2]

\* The request holds a message that is a string and not the empty string.
MessageGiven(q) ==
    /\ q.json
    /\ "message" \in DOMAIN q.body
    /\ "string" \in DOMAIN q.body.message
    /\ q.body.message.string # << >>

\* handleChat has been called for the request.
HandleChatCalled ==
    contents # << >> \/ pc \in { "loop", "fetch", "tool", "done", "threw" }

\* The request without history for which handleChat has been called got the
\* empty history: its first transcript is the single prompted user turn.
MissingHistoryIsEmpty ==
    (MessageGiven(request[1]) /\ HandleChatCalled
       /\ "history" \notin DOMAIN request[1].body) =>
      /\ history = << >>
      /\ sent # << >> =>
           /\ Len(sent[1]) = 1
           /\ IsPromptThenMessage(sent[1][1].parts[1].text,
                                  request[1].body.message.string)

(***************************************************************************)
(* C18.  A POST /api/chat request that holds no message, a message that is *)
(* not a string or the empty string is answered with status 400 and        *)
(* handleChat is never called for it: no completion call and no tool call  *)
(* is made.  For a request without history handleChat is called with the   *)
(* empty history.                                                          *)
(***************************************************************************)
C18_InvalidMessageRejected ==
    /\ ~MessageGiven(request[1]) =>
         /\ ~HandleChatCalled
         /\ sent = << >>
         /\ invoked = << >>
         /\ pc \in { "request", "responded" }
         /\ pc = "responded" =>
              /\ response[1].status = 400
              /\ DOMAIN response[1].body = { "error" }
    /\ MissingHistoryIsEmpty

\* The body of the request parses as JSON and is not null.
BodyIsObject(q) == q.json /\ "null" \notin DOMAIN q.body

(***************************************************************************)
(* C18 for the requests whose body parses to a value other than null: a    *)
(* message that is missing, not a string or empty is answered with 400     *)
(* and handleChat is not called; the other requests without a message (a   *)
(* body that is not JSON, a null body) are answered with 500, handleChat   *)
(* not being called either.                                                *)
(***************************************************************************)
C18_ObjectBodyRejected ==
    /\ ~MessageGiven(request[1]) =>
         /\ ~HandleChatCalled
         /\ sent = << >>
         /\ invoked = << >>
         /\ pc \in { "request", "responded" }
         /\ pc = "request" => ~ENABLED CallHandleChat
         /\ pc = "responded" =>
              /\ response[1].status =
                   IF BodyIsObject(request[1]) THEN 400 ELSE 500
              /\ DOMAIN response[1].body = { "error" }
    /\ MissingHistoryIsEmpty

C18_Witness ==
    /\ pc = "responded"
    /\ request[1].json
    /\ "message" \in DOMAIN request[1].body
    /\ request[1].body.message = [string |-> << >>]
    /\ "history" \in DOMAIN request[1].body
    /\ ~request[1].key
    /\ response[1].status = 400
    /\ sent = << >>

\* The run has ended in one of the four terminal states: it returned a
\* value (final answer, malformed, service error or budget exhausted).
Terminal == pc = "done" /\ result # {}

\* The last completion call did not return: its fetch rejected.
CallDidNotReturn == pc = "threw" /\ Len(received) < Len(sent)

(***************************************************************************)
(* C19.  When every outbound call returns, a run eventually reaches a      *)
(* terminal state in which it has returned a value, and up to there it     *)
(* makes at most MAX_TOOL_CALLS completion calls and at most               *)
(* MAX_TOOL_CALLS tool calls.                                              *)
(***************************************************************************)
C19_EventuallyTerminal ==
    /\ [](Len(sent) <= MAX_TOOL_CALLS /\ Len(invoked) <= MAX_TOOL_CALLS)
    /\ <>(Terminal \/ CallDidNotReturn)

\* A tool call is in flight: executeTool has been called and has not settled.
ToolCallInFlight == Len(invoked) = Len(outcomes) + 1

(***************************************************************************)
(* C20 as stated.  While a tool call is in flight, the raw model turn that *)
(* asked for it is already the last turn of the transcript and the name is *)
(* already in toolsUsed: the model turn is appended first, then the name,  *)
(* then the tool is called, then the result turn is appended.              *)
(***************************************************************************)
C20_ModelTurnBeforeToolCall ==
    ToolCallInFlight =>
      /\ Last(toolsUsed) = Last(invoked).name
      /\ Len(contents) = ModelTurnAt(Len(invoked))
      /\ Last(contents) = RawTurn(Len(invoked))

(***************************************************************************)
(* C20 as amended.  The name is appended to toolsUsed first, then the tool *)
(* is called; while the call is in flight the transcript holds neither     *)
(* turn of it, it ends with the turns of the calls settled before.  Once   *)
(* the call has settled the raw model turn is appended and, after it, the  *)
(* user tool-result turn.                                                  *)
(***************************************************************************)
C20_NameThenCallThenTurns ==
    /\ Len(toolsUsed) = Len(invoked)
    /\ Len(invoked) - Len(outcomes) \in { 0, 1 }
    /\ Len(contents) = ResultTurnAt(Len(outcomes))
    /\ ToolCallInFlight => Last(toolsUsed) = Last(invoked).name
    /\ \A k \in 1..Len(outcomes) :
         /\ contents[ModelTurnAt(k)] = RawTurn(k)
         /\ IsToolResultTurn(contents[ResultTurnAt(k)])
         /\ contents[ResultTurnAt(k)].parts[1].functionResponse.name = toolsUsed[k]

C20_Witness ==
    /\ ToolCallInFlight
    /\ pc = "tool"
    /\ toolsUsed = << "weather", "unknown_tool" >>
    /\ Len(contents) = Base + 2
    /\ Last(contents).role = "user"

\* The run has ended: it returned a value or an exception left it.
RunEnded == pc \in { "done", "threw" }

\* The run ended budget-exhausted: it returned after a response that asked
\* for a tool.
EndedBudgetExhausted ==
    pc = "done" /\ received # << >> /\ RequestsTool(Last(received))

(***************************************************************************)
(* C21.  At the end of a run the number of completion calls made is        *)
(* Len(tools_used) + 1, except when the run ends budget-exhausted: then it *)
(* is Len(tools_used) = MAX_TOOL_CALLS.  The budget-exhausted reply is     *)
(* returned only after exactly MAX_TOOL_CALLS tool calls, and the result   *)
(* turn of the last of them is in the transcript but in no request sent.   *)
(***************************************************************************)
C21_CallsAndToolsAtTheEnd ==
    /\ RunEnded =>
         /\ Len(toolsUsed) = Len(invoked)
         /\ Len(outcomes) = Len(invoked)
         /\ pc = "done" => TheResult.tools_used = toolsUsed
         /\ IF EndedBudgetExhausted
            THEN /\ Len(sent) = Len(toolsUsed)
                 /\ Len(toolsUsed) = MAX_TOOL_CALLS
            ELSE Len(sent) = Len(toolsUsed) + 1
    /\ (pc = "done" /\ TheResult.reply = BudgetReply) <=> EndedBudgetExhausted
    /\ EndedBudgetExhausted =>
         /\ Len(invoked) = MAX_TOOL_CALLS
         /\ Len(contents) = ResultTurnAt(MAX_TOOL_CALLS)
         /\ IsToolResultTurn(contents[ResultTurnAt(MAX_TOOL_CALLS)])
         /\ \A s \in 1..Len(sent) : Len(sent[s]) < ResultTurnAt(MAX_TOOL_CALLS)

C21_Witness ==
    /\ EndedBudgetExhausted
    /\ TheResult.reply = BudgetReply
    /\ Len(sent) = 5
    /\ Len(TheResult.tools_used) = 5
    /\ Len(Last(sent)) = Base + 8
    /\ Len(contents) = Base + 10

(***************************************************************************)
(* The chat widget.                                                        *)
(***************************************************************************)
\* A step that is not the settling of a request.
NothingSettles == inFlight' >= inFlight

IsPrefixOf(p, arr) == Len(p) <= Len(arr) /\ p = SubSeq(arr, 1, Len(p))

(* C22. In the chat widget at most one /api/chat request is in flight at   *)
(* any time: a trigger that arrives while isLoading is true sends nothing  *)
(* and changes neither history nor the message list, and isLoading is      *)
(* false again as soon as the request has settled, whether it succeeded or *)
(* failed.                                                                 *)
C22_OneRequestInFlight ==
    /\ inFlight = 0 /\ ~isLoading
    /\ [][ /\ inFlight' \in { 0, 1 }
           /\ isLoading' <=> inFlight' = 1
           /\ Len(posted') - Len(posted) = IF inFlight' > inFlight THEN 1 ELSE 0
           /\ (isLoading /\ NothingSettles) =>
                UNCHANGED << uiHistory, messagesEl, posted, inFlight, isLoading >>
           /\ inFlight' < inFlight => ~isLoading'
       ]_vars

\* The first request failed, the second is in flight, and Enter was pressed
\* while it is.
C22_Witness ==
    /\ isLoading
    /\ inFlight = 1
    /\ lastTrigger = "ignored"
    /\ Trim(inputValue) # << >>
    /\ Len(posted) = 2
    /\ Len(messagesEl) = 3
    /\ messagesEl[2] = ErrorBubble

EntryRoleAt(k) == IF k % 2 = 1 THEN "user" ELSE "assistant"

HistoryAlternates ==
    /\ \A k \in 1..Len(uiHistory) : uiHistory[k].role = EntryRoleAt(k)
    /\ uiHistory # << >> => uiHistory[Len(uiHistory)].role = "assistant"

AssistantTextsAreStrings ==
    \A k \in 1..Len(uiHistory) :
        uiHistory[k].role = "assistant" => Has(uiHistory[k].text, "string")

\* The history sent with a request is what came before the request's own
\* entry.
SentHistoryExcludesOwnMessage ==
    \A k \in 1..Len(posted) :
        /\ IsPrefixOf(posted[k].history, uiHistory)
        /\ Len(posted[k].history) < Len(uiHistory)
        /\ uiHistory[Len(posted[k].history) + 1] =
             [role |-> "user", text |-> [string |-> posted[k].message]]

(* C23. In the chat widget, after any sequence of sendMessage calls with   *)
(* any mix of successful and failed requests, whenever no request is in    *)
(* flight the client history strictly alternates user and assistant        *)
(* entries starting with user and ending with assistant, every assistant   *)
(* entry has a string text, and the history sent with a request never      *)
(* contains the message of that same request.                              *)
C23_HistoryAlternatesWhenIdle ==
    /\ inFlight = 0 => HistoryAlternates
    /\ AssistantTextsAreStrings
    /\ SentHistoryExcludesOwnMessage

====
